---- MODULE Spec2Model ----
(***************************************************************************)
(* Model of the maze generator (createMaze.js: removeWall,                 *)
(* getRandomNeighbour, generateMaze), the A* solver (solveMaze.js:         *)
(* findPath and its helpers) and the grid construction of main.js          *)
(* (populateGrid, main).                                                   *)
(*                                                                         *)
(* A JavaScript string is modelled as a sequence of one-character strings, *)
(* so that building a key, splitting it, parsing it and iterating over it  *)
(* are computed and not assumed.  A JavaScript object is a function whose  *)
(* DOMAIN is its set of own property keys; where the code depends on the   *)
(* property order (openNodes) the object is a sequence of entries in       *)
(* property order.                                                         *)
(***************************************************************************)
EXTENDS Integers, Sequences, FiniteSets, TLC

\* Largest number of columns / rows / cells of a grid the model builds.
MaxW == 3
MaxH == 3
MaxCells == 9

\* Side of the one larger grid findPath is also run on.
SampleSize == 4

\* Most cells of a grid whose wall flags are drawn one by one.
MaxAnyCells == 4

VARIABLES
    pc,            \* position of the program
    grid,          \* main.js `grid`: key -> {top, bottom, left, right}
    gridWidth,     \* main.js `gridWidth`
    gridHeight,    \* main.js `gridHeight`
    stack,         \* generateMaze `stack`
    visited,       \* generateMaze `visited`
    timesChosen,   \* history: how often each key was the chosenNeighbour
    finishCell,    \* findPath `finishCell`
    openNodes,     \* findPath `openNodes`, entries in property order
    closedNodes,   \* findPath `closedNodes`
    minKey,        \* findPath `minKey` / `current[0]`
    grid0,         \* history: the grid as it was when the function was called
    tick,          \* history: number of frontier insertions so far
    insertedAt,    \* history: key -> tick of its first insertion in openNodes
    replacedKeys,  \* history: keys whose frontier entry was replaced
    keptKeys,      \* history: keys whose frontier entry a candidate left as it was
    iterations,    \* history: number of loop iterations findPath has begun
    solveChecked,  \* main.js `solveMaze.checked`
    drawCurrent,   \* drawFoundPath `current`
    drawn,         \* history: the cells drawFoundPath has shaded, in order
    wallArgs       \* the cells a lone removeWall call is given

vars == <<pc, grid, gridWidth, gridHeight, stack, visited, timesChosen,
          finishCell, openNodes, closedNodes, minKey, grid0, tick,
          insertedAt, replacedKeys, keptKeys, iterations, solveChecked,
          drawCurrent, drawn, wallArgs>>

genVars == <<stack, visited, timesChosen>>
solveVars == <<finishCell, openNodes, closedNodes, minKey, grid0, tick,
               insertedAt, replacedKeys, keptKeys, iterations>>
drawVars == <<drawCurrent, drawn>>
restVars == <<solveChecked, drawCurrent, drawn, wallArgs>>

-----------------------------------------------------------------------------
(* Strings and keys *)

Abs(n) == IF n < 0 THEN -n ELSE n

DigitChar(d) == <<"0", "1", "2", "3", "4", "5", "6", "7", "8", "9">>[d + 1]

RECURSIVE NatStr(_)
NatStr(n) == IF n < 10 THEN <<DigitChar(n)>>
             ELSE NatStr(n \div 10) \o <<DigitChar(n % 10)>>

\* String(n) / `${n}` of an integer.
NumStr(n) == IF n < 0 THEN <<"-">> \o NatStr(-n) ELSE NatStr(n)

\* `${c[0]},${c[1]}`, and the property key an array [x, y] converts to.
Key(c) == NumStr(c[1]) \o <<",">> \o NumStr(c[2])

DigitVal(ch) == CHOOSE d \in 0..9 : DigitChar(d) = ch

IsDigit(ch) == \E d \in 0..9 : DigitChar(d) = ch

RECURSIVE DigitsVal(_)
DigitsVal(s) == IF s = <<>> THEN 0
                ELSE 10 * DigitsVal(SubSeq(s, 1, Len(s) - 1)) + DigitVal(s[Len(s)])

\* The longest prefix of s made of digits.
RECURSIVE DigitPrefix(_)
DigitPrefix(s) == IF s = <<>> \/ ~IsDigit(Head(s)) THEN <<>>
                  ELSE <<Head(s)>> \o DigitPrefix(Tail(s))

\* parseInt(s) for a string holding an optionally signed decimal number.
ParseInt(s) == IF s # <<>> /\ Head(s) = "-"
               THEN -DigitsVal(DigitPrefix(Tail(s)))
               ELSE DigitsVal(DigitPrefix(s))

\* cordsStr.split(",") restricted to its first two fields, then parseInt.
getNumericalCoordinates(cordsStr) ==
    LET comma == CHOOSE i \in 1..Len(cordsStr) :
                     /\ cordsStr[i] = ","
                     /\ \A j \in 1..(i - 1) : cordsStr[j] # ","
        rest == SubSeq(cordsStr, comma + 1, Len(cordsStr))
        second == IF \E i \in 1..Len(rest) : rest[i] = ","
                  THEN SubSeq(rest, 1, (CHOOSE i \in 1..Len(rest) :
                           /\ rest[i] = ","
                           /\ \A j \in 1..(i - 1) : rest[j] # ",") - 1)
                  ELSE rest
    IN <<ParseInt(SubSeq(cordsStr, 1, comma - 1)), ParseInt(second)>>

\* new Set(str): a Set built from a string holds its characters.
SetOfString(str) == {<<str[i]>> : i \in 1..Len(str)}

-----------------------------------------------------------------------------
(* Grid construction, main.js *)

AllWalls == [top |-> TRUE, bottom |-> TRUE, left |-> TRUE, right |-> TRUE]

CellsOf(w, h) == {<<i, j>> : i \in 0..(w - 1), j \in 0..(h - 1)}

\* populateGrid(_gridHeight, _gridWidth): the object it leaves in `grid`.
populateGrid(_gridHeight, _gridWidth) ==
    [k \in {Key(c) : c \in CellsOf(_gridWidth, _gridHeight)} |-> AllWalls]

-----------------------------------------------------------------------------
(* createMaze.js *)

\* The value of a property lookup that finds no property.
Undefined == <<"undefined">>

\* Mutant of the dictionary: an unknown direction falls back to an entry.
directionDictionaryWithDefault(d) ==
    CASE d = <<0, -1>> -> <<"top", "bottom">>
      [] d = <<0, 1>>  -> <<"bottom", "top">>
      [] d = <<1, 0>>  -> <<"right", "left">>
      [] d = <<-1, 0>> -> <<"left", "right">>
      [] OTHER         -> <<"top", "bottom">>

\* directionDictionary[`${directionResult}`]
directionDictionary(d) ==
    CASE d = <<0, -1>> -> <<"top", "bottom">>
      [] d = <<0, 1>>  -> <<"bottom", "top">>
      [] d = <<1, 0>>  -> <<"right", "left">>
      [] d = <<-1, 0>> -> <<"left", "right">>
      [] OTHER         -> Undefined

SetWall(cell, wall, v) ==
    CASE wall = "top"    -> [cell EXCEPT !.top = v]
      [] wall = "bottom" -> [cell EXCEPT !.bottom = v]
      [] wall = "left"   -> [cell EXCEPT !.left = v]
      [] wall = "right"  -> [cell EXCEPT !.right = v]

\* Mutant of removeWall: only the near side of the wall is cleared.
removeWallNearOnly(_grid, cellFrom, cellTo) ==
    LET walls == directionDictionary(<<cellTo[1] - cellFrom[1], cellTo[2] - cellFrom[2]>>)
    IN [_grid EXCEPT ![Key(cellFrom)] = SetWall(@, walls[1], FALSE)]

\* removeWall throws: `walls` is undefined and walls[0] is a TypeError.
removeWallThrows(cellFrom, cellTo) ==
    directionDictionary(<<cellTo[1] - cellFrom[1], cellTo[2] - cellFrom[2]>>) = Undefined

\* removeWall(_grid, cellFrom, cellTo): the grid after it.  When `walls` is
\* undefined, evaluating walls[0] throws before the first assignment.
removeWall(_grid, cellFrom, cellTo) ==
    LET walls == directionDictionary(<<cellTo[1] - cellFrom[1], cellTo[2] - cellFrom[2]>>)
    IN IF walls = Undefined THEN _grid
       ELSE [[_grid EXCEPT ![Key(cellFrom)] = SetWall(@, walls[1], FALSE)]
                    EXCEPT ![Key(cellTo)] = SetWall(@, walls[2], FALSE)]

\* Mutant of the candidates: the Right test is missing.
generatorCandidatesNoRight(current) ==
    << <<current[1] - 1, current[2]>>,
       <<current[1], current[2] + 1>>,
       <<current[1], current[2] - 1>> >>

\* The candidate cells of getRandomNeighbour, in the order it tests them.
generatorCandidates(current) ==
    << <<current[1] + 1, current[2]>>,     \* Right
       <<current[1] - 1, current[2]>>,     \* Left
       <<current[1], current[2] + 1>>,     \* Down
       <<current[1], current[2] - 1>> >>   \* Up

\* validNeighbours of getRandomNeighbour: in the grid and not in `visited`.
validNeighbours(current, _grid, _visited) ==
    SelectSeq(generatorCandidates(current),
              LAMBDA n : Key(n) \in DOMAIN _grid /\ Key(n) \notin _visited)

\* new Set(`${current[0]},${current[1]}`)
initialVisited(current) == SetOfString(Key(current))

\* Mutant of the carve step: the popped cell is not pushed back.
stackAfterCarveNoRepush(_stack, chosenNeighbour) ==
    Append(SubSeq(_stack, 1, Len(_stack) - 1), chosenNeighbour)

\* stack.pop(), stack.push(current), stack.push(chosenNeighbour).
stackAfterCarve(_stack, chosenNeighbour) ==
    LET current == _stack[Len(_stack)]
        popped == SubSeq(_stack, 1, Len(_stack) - 1)
    IN Append(Append(popped, current), chosenNeighbour)

\* Mutant of the backtrack step: the popped cell is pushed back.
stackAfterBacktrackRepush(_stack) == _stack

\* stack.pop() when no neighbour is chosen: the popped cell is dropped.
stackAfterBacktrack(_stack) == SubSeq(_stack, 1, Len(_stack) - 1)

-----------------------------------------------------------------------------
(* The program: main() builds the grid and generates the maze *)

NoCell == <<>>

\* Neither generateMaze, findPath, drawFoundPath nor removeWall has run.
NothingRun ==
    /\ stack = <<>>
    /\ visited = {}
    /\ timesChosen = [k \in {} |-> 0]
    /\ finishCell = NoCell
    /\ openNodes = <<>>
    /\ closedNodes = <<>>
    /\ minKey = NoCell
    /\ grid0 = populateGrid(0, 0)
    /\ tick = 0
    /\ insertedAt = [k \in {} |-> 0]
    /\ replacedKeys = {}
    /\ keptKeys = {}
    /\ iterations = 0
    /\ drawCurrent = NoCell
    /\ drawn = <<>>
    /\ wallArgs = <<>>

\* The module state of main.js before main() runs: no cell is in the grid,
\* the column count is one validateGridWidth accepts, no height is computed.
Init ==
    /\ pc = "idle"
    /\ grid = populateGrid(0, 0)
    /\ gridWidth \in 1..MaxW
    /\ gridHeight = 0
    /\ solveChecked \in BOOLEAN
    /\ NothingRun

\* validateGridWidth(): the width is within the limits.  The limits 10 and
\* 300 of the code are 1 and MaxW here.
validateGridWidth(_gridWidth) == ~(_gridWidth < 1 \/ _gridWidth > MaxW)

\* main(), at page load or after a click on the generate button: when
\* validateGridWidth() fails main returns and the page is at rest again;
\* otherwise setGridBounds() then populateGrid(gridHeight, gridWidth).  The
\* height is whatever the canvas height divided by the cell width gives,
\* zero included.
PopulateGrid ==
    /\ pc \in {"idle", "clicked"}
    /\ IF ~validateGridWidth(gridWidth)
       THEN /\ pc' = "rendered"
            /\ UNCHANGED <<grid, gridHeight, timesChosen>>
       ELSE /\ \E h \in 0..MaxH :
                  /\ gridWidth * h <= MaxCells
                  /\ gridHeight' = h
                  /\ grid' = populateGrid(h, gridWidth)
                  /\ timesChosen' = [k \in DOMAIN populateGrid(h, gridWidth) |-> 0]
            /\ pc' = "populated"
    /\ UNCHANGED <<gridWidth, stack, visited>>
    /\ UNCHANGED solveVars
    /\ UNCHANGED restVars

\* generateMaze lines 87-89.
GenerateInit ==
    /\ pc = "populated"
    /\ stack' = << <<0, 0>> >>
    /\ visited' = initialVisited(<<0, 0>>)
    /\ pc' = "generating"
    /\ UNCHANGED <<grid, gridWidth, gridHeight, timesChosen>>
    /\ UNCHANGED solveVars
    /\ UNCHANGED restVars

\* One loop iteration of generateMaze in which a neighbour is chosen.
GenerateCarve ==
    /\ pc = "generating"
    /\ stack # <<>>
    /\ LET current == stack[Len(stack)]
           valid == validNeighbours(current, grid, visited)
       IN /\ valid # <<>>
          /\ \E i \in 1..Len(valid) :
                LET chosenNeighbour == valid[i]
                IN /\ grid' = removeWall(grid, current, chosenNeighbour)
                   /\ visited' = visited \cup {Key(chosenNeighbour)}
                   /\ stack' = stackAfterCarve(stack, chosenNeighbour)
                   /\ timesChosen' = [timesChosen EXCEPT ![Key(chosenNeighbour)] = @ + 1]
    /\ UNCHANGED <<pc, gridWidth, gridHeight>>
    /\ UNCHANGED solveVars
    /\ UNCHANGED restVars

\* One loop iteration of generateMaze in which getRandomNeighbour returns null.
GenerateBacktrack ==
    /\ pc = "generating"
    /\ stack # <<>>
    /\ validNeighbours(stack[Len(stack)], grid, visited) = <<>>
    /\ stack' = stackAfterBacktrack(stack)
    /\ UNCHANGED <<pc, grid, gridWidth, gridHeight, visited, timesChosen>>
    /\ UNCHANGED solveVars
    /\ UNCHANGED restVars

\* The loop condition fails: generateMaze returns.
GenerateReturn ==
    /\ pc = "generating"
    /\ stack = <<>>
    /\ pc' = "generated"
    /\ UNCHANGED <<grid, gridWidth, gridHeight>>
    /\ UNCHANGED genVars
    /\ UNCHANGED solveVars
    /\ UNCHANGED restVars


-----------------------------------------------------------------------------
(* solveMaze.js *)

\* Own-property test, read, write and delete on an object kept in property
\* order: assigning an existing key keeps its place, a new key goes last.
HasKey(obj, k) == \E i \in 1..Len(obj) : obj[i].key = k

Get(obj, k) == obj[CHOOSE i \in 1..Len(obj) : obj[i].key = k].node

Put(obj, k, n) ==
    IF HasKey(obj, k)
    THEN [i \in 1..Len(obj) |-> IF obj[i].key = k THEN [key |-> k, node |-> n] ELSE obj[i]]
    ELSE Append(obj, [key |-> k, node |-> n])

Delete(obj, k) == SelectSeq(obj, LAMBDA e : e.key # k)

\* Mutant of the comparison of getLowestCostNodeKey: <= instead of <.
lowerCostOrEqual(value, minNode) == value.totalCost <= minNode.totalCost

\* value.totalCost < openNodes[minEntry].totalCost
lowerCost(value, minNode) == value.totalCost < minNode.totalCost

RECURSIVE reduceMin(_, _, _)
reduceMin(_openNodes, i, minEntry) ==
    IF i > Len(_openNodes) THEN minEntry
    ELSE reduceMin(_openNodes, i + 1,
                   IF lowerCost(_openNodes[i].node, Get(_openNodes, minEntry))
                   THEN _openNodes[i].key ELSE minEntry)

\* Object.entries(openNodes).reduce(..., Object.keys(openNodes)[0])
getLowestCostNodeKey(_openNodes) == reduceMin(_openNodes, 1, _openNodes[1].key)

\* Mutant of the heuristic: squared differences, which overestimate.
getHeuristicMeasureSquared(currentCell, targetCell) ==
    LET targetCords == getNumericalCoordinates(targetCell)
    IN (targetCords[1] - currentCell[1]) * (targetCords[1] - currentCell[1])
       + (targetCords[2] - currentCell[2]) * (targetCords[2] - currentCell[2])

getHeuristicMeasure(currentCell, targetCell) ==
    LET targetCords == getNumericalCoordinates(targetCell)
    IN Abs(targetCords[1] - currentCell[1]) + Abs(targetCords[2] - currentCell[2])

\* Mutant of the flags read: the Right neighbour is tested on its right flag.
blockingWallSameSide(cell, i) ==
    CASE i = 1 -> cell.bottom
      [] i = 2 -> cell.top
      [] i = 3 -> cell.right
      [] i = 4 -> cell.right

\* The wall flag getViableNeighbours reads for the candidate at index i
\* (1 Up, 2 Down, 3 Left, 4 Right): a flag of the neighbouring cell.
blockingWall(cell, i) ==
    CASE i = 1 -> cell.bottom
      [] i = 2 -> cell.top
      [] i = 3 -> cell.right
      [] i = 4 -> cell.left

\* Mutant of the neighbour scan: closed cells are not removed.
getViableNeighboursClosedToo(_grid, currentNode, _closedNodes) ==
    LET cords == getNumericalCoordinates(currentNode)
        possibleNeighbours ==
            << <<cords[1], cords[2] - 1>>,
               <<cords[1], cords[2] + 1>>,
               <<cords[1] - 1, cords[2]>>,
               <<cords[1] + 1, cords[2]>> >>
        removed(i) ==
            \/ Key(possibleNeighbours[i]) \notin DOMAIN _grid
            \/ blockingWall(_grid[Key(possibleNeighbours[i])], i)
    IN [i \in 1..Cardinality({j \in 1..4 : ~removed(j)}) |->
           possibleNeighbours[CHOOSE j \in 1..4 :
               /\ ~removed(j)
               /\ Cardinality({m \in 1..(j - 1) : ~removed(m)}) = i - 1]]

getViableNeighbours(_grid, currentNode, _closedNodes) ==
    LET cords == getNumericalCoordinates(currentNode)
        possibleNeighbours ==
            << <<cords[1], cords[2] - 1>>,     \* Up
               <<cords[1], cords[2] + 1>>,     \* Down
               <<cords[1] - 1, cords[2]>>,     \* Left
               <<cords[1] + 1, cords[2]>> >>   \* Right
        removed(i) ==
            \/ Key(possibleNeighbours[i]) \notin DOMAIN _grid
            \/ blockingWall(_grid[Key(possibleNeighbours[i])], i)
            \/ Key(possibleNeighbours[i]) \in DOMAIN _closedNodes
    IN [i \in 1..Cardinality({j \in 1..4 : ~removed(j)}) |->
           possibleNeighbours[CHOOSE j \in 1..4 :
               /\ ~removed(j)
               /\ Cardinality({m \in 1..(j - 1) : ~removed(m)}) = i - 1]]

\* Mutant of the grid effect: the neighbour scan writes a wall flag.
gridAfterScanWritesFlag(_grid, currentNode) ==
    LET cords == getNumericalCoordinates(currentNode)
        right == Key(<<cords[1] + 1, cords[2]>>)
    IN IF right \in DOMAIN _grid
       THEN [_grid EXCEPT ![right] = SetWall(@, "left", TRUE)]
       ELSE _grid

\* The grid object after getViableNeighbours(grid, currentNode, closedNodes):
\* the function tests own properties and reads flags, and assigns nothing.
gridAfterScan(_grid, currentNode) == _grid

\* Mutant of the update test: an equally cheap candidate replaces too.
replacesEntryOnTie(existing, neighbourNode) ==
    existing.totalCost >= neighbourNode.totalCost

\* Mutant of the update test: the comparison is reversed.
replacesEntryReversed(existing, neighbourNode) ==
    existing.totalCost < neighbourNode.totalCost

\* openNodes[n].totalCost > neighbourNode.totalCost
replacesEntry(existing, neighbourNode) ==
    existing.totalCost > neighbourNode.totalCost

\* The body of the for loop of findPath over possibleNeighbours[i..], on the
\* frontier and the history of its insertions and replacements.
RECURSIVE evaluateNeighbours(_, _, _, _, _)
evaluateNeighbours(acc, possibleNeighbours, i, current, _finishCell) ==
    IF i > Len(possibleNeighbours) THEN acc
    ELSE
      LET k == Key(possibleNeighbours[i])
          dist == getHeuristicMeasure(possibleNeighbours[i], _finishCell)
          neighbourNode == [parent |-> current[1],
                            moveCost |-> current[2].moveCost + 1,
                            distCost |-> dist,
                            totalCost |-> current[2].moveCost + 1 + dist]
          next ==
            IF ~HasKey(acc.open, k)
            THEN [open |-> Put(acc.open, k, neighbourNode),
                  tick |-> acc.tick + 1,
                  insertedAt |-> [x \in DOMAIN acc.insertedAt \cup {k} |->
                                     IF x = k THEN acc.tick + 1 ELSE acc.insertedAt[x]],
                  replaced |-> acc.replaced,
                  kept |-> acc.kept]
            ELSE IF replacesEntry(Get(acc.open, k), neighbourNode)
            THEN [acc EXCEPT !.open = Put(acc.open, k, neighbourNode),
                             !.replaced = acc.replaced \cup {k}]
            ELSE [acc EXCEPT !.kept = acc.kept \cup {k}]
      IN evaluateNeighbours(next, possibleNeighbours, i + 1, current, _finishCell)

\* obj[k] = n on an object whose property order is not used.
SetProperty(obj, k, n) == [x \in DOMAIN obj \cup {k} |-> IF x = k THEN n ELSE obj[x]]

\* Mutant of line 36: the finish cell is not recorded in closedNodes.
closedWithoutFinish(_closedNodes, k, n) == _closedNodes

\* closedNodes[current[0]] = current[1] when the finish cell is reached.
closedWithFinish(_closedNodes, k, n) == SetProperty(_closedNodes, k, n)

StartKey == Key(<<0, 0>>)

StartNode == [parent |-> StartKey, moveCost |-> 0, distCost |-> 0, totalCost |-> 0]

\* findPath lines 14-26.
FindPathInit ==
    /\ pc = "call"
    /\ finishCell' = NumStr(gridWidth - 1) \o <<",">> \o NumStr(gridHeight - 1)
    /\ closedNodes' = <<>>
    /\ openNodes' = Put(<<>>, StartKey, StartNode)
    /\ minKey' = NoCell
    /\ grid0' = grid
    /\ tick' = 1
    /\ insertedAt' = [k \in {StartKey} |-> 1]
    /\ replacedKeys' = {}
    /\ keptKeys' = {}
    /\ iterations' = 0
    /\ pc' = "loop"
    /\ UNCHANGED <<grid, gridWidth, gridHeight>>
    /\ UNCHANGED genVars
    /\ UNCHANGED restVars

\* Lines 29-32: the loop condition holds and the lowest cost key is taken.
FindPathSelect ==
    /\ pc = "loop"
    /\ Len(openNodes) > 0
    /\ minKey' = getLowestCostNodeKey(openNodes)
    /\ iterations' = iterations + 1
    /\ pc' = "selected"
    /\ UNCHANGED <<grid, gridWidth, gridHeight, finishCell, openNodes,
                   closedNodes, grid0, tick, insertedAt, replacedKeys, keptKeys>>
    /\ UNCHANGED genVars
    /\ UNCHANGED restVars

\* Lines 35-39: the selected key is the finish cell.
FindPathReturnFound ==
    /\ pc = "selected"
    /\ minKey = finishCell
    /\ closedNodes' = closedWithFinish(closedNodes, minKey, Get(openNodes, minKey))
    /\ pc' = "found"
    /\ UNCHANGED <<grid, gridWidth, gridHeight, finishCell, openNodes, minKey,
                   grid0, tick, insertedAt, replacedKeys, keptKeys, iterations>>
    /\ UNCHANGED genVars
    /\ UNCHANGED restVars

\* Lines 42-71: the selected node is expanded and closed.
FindPathExpand ==
    /\ pc = "selected"
    /\ minKey # finishCell
    /\ LET current == <<minKey, Get(openNodes, minKey)>>
           possibleNeighbours == getViableNeighbours(grid, current[1], closedNodes)
           after == evaluateNeighbours(
                        [open |-> openNodes, tick |-> tick,
                         insertedAt |-> insertedAt, replaced |-> replacedKeys,
                         kept |-> keptKeys],
                        possibleNeighbours, 1, current, finishCell)
       IN /\ grid' = gridAfterScan(grid, current[1])
          /\ closedNodes' = SetProperty(closedNodes, current[1], current[2])
          /\ openNodes' = Delete(after.open, current[1])
          /\ tick' = after.tick
          /\ insertedAt' = after.insertedAt
          /\ replacedKeys' = after.replaced
          /\ keptKeys' = after.kept
    /\ pc' = "loop"
    /\ UNCHANGED <<gridWidth, gridHeight, finishCell, minKey, grid0, iterations>>
    /\ UNCHANGED genVars
    /\ UNCHANGED restVars

\* Lines 29 and 75: the frontier is empty, findPath returns undefined.
FindPathReturnUndefined ==
    /\ pc = "loop"
    /\ Len(openNodes) = 0
    /\ pc' = "undefined"
    /\ UNCHANGED <<grid, gridWidth, gridHeight>>
    /\ UNCHANGED solveVars
    /\ UNCHANGED genVars
    /\ UNCHANGED restVars

\* The pairs of horizontally or vertically neighbouring cells of a w x h grid.
EdgesOf(w, h) ==
    {<<a, b>> \in CellsOf(w, h) \X CellsOf(w, h) :
        \/ b = <<a[1] + 1, a[2]>>
        \/ b = <<a[1], a[2] + 1>>}

RECURSIVE openAll(_, _)
openAll(_grid, edges) ==
    IF edges = {} THEN _grid
    ELSE LET e == CHOOSE x \in edges : TRUE
         IN openAll(removeWall(_grid, e[1], e[2]), edges \ {e})

\* A maze of SampleSize columns and rows in which the search replaces a
\* frontier entry by a cheaper candidate on its way to the goal: its passages.
SamplePassages ==
    {<< <<0, 0>>, <<1, 0>> >>, << <<0, 1>>, <<0, 2>> >>, << <<0, 1>>, <<1, 1>> >>,
      << <<0, 2>>, <<0, 3>> >>, << <<0, 2>>, <<1, 2>> >>, << <<1, 0>>, <<1, 1>> >>,
      << <<1, 0>>, <<2, 0>> >>, << <<1, 2>>, <<1, 3>> >>, << <<1, 2>>, <<2, 2>> >>,
      << <<1, 3>>, <<2, 3>> >>, << <<2, 0>>, <<2, 1>> >>, << <<2, 0>>, <<3, 0>> >>,
      << <<2, 1>>, <<3, 1>> >>, << <<2, 2>>, <<3, 2>> >>, << <<2, 3>>, <<3, 3>> >>,
      << <<3, 1>>, <<3, 2>> >> }

\* findPath is called on a grid of main.js: a populated grid in which
\* removeWall has opened some set of walls.  gridHeight is the height the
\* grid was populated with; gridWidth is whatever the column input last
\* wrote, the width of the grid or not.  Every set of opened walls is taken
\* for the grids of at most MaxCells cells; of the larger grids, the sample
\* maze and the mazes with one of its passages walled up again.
InitSolve ==
    /\ pc = "call"
    /\ \/ \E w \in 1..MaxW, h \in 0..MaxH :
             /\ w * h <= MaxCells
             /\ gridWidth \in 1..MaxW
             /\ gridHeight = h
             /\ \E edges \in SUBSET EdgesOf(w, h) :
                   grid = openAll(populateGrid(h, w), edges)
       \/ /\ gridWidth = SampleSize
          /\ gridHeight = SampleSize
          /\ \E closed \in SUBSET SamplePassages :
                /\ Cardinality(closed) <= 1
                /\ grid = openAll(populateGrid(SampleSize, SampleSize),
                                  SamplePassages \ closed)
    /\ solveChecked = TRUE
    /\ NothingRun

-----------------------------------------------------------------------------
(* main.js renderGrid and render.js drawFoundPath *)

\* The numCols input listener, lines 57-59, while the page is at rest:
\* gridWidth changes, to a width within the limits or to one above them,
\* and the grid stays as it is until the next main().
NumColsInput ==
    /\ pc = "rendered"
    /\ \E w \in 1..(MaxW + 1) : w # gridWidth /\ gridWidth' = w
    /\ UNCHANGED <<pc, grid, gridHeight>>
    /\ UNCHANGED genVars
    /\ UNCHANGED solveVars
    /\ UNCHANGED restVars

\* The solveMaze change listener, lines 62-65, while the page is at rest: the
\* box is toggled and renderGrid is called.  The listener's own findPath call
\* on line 63 has no effect and its result is dropped.
SolveMazeChange ==
    /\ pc = "rendered"
    /\ solveChecked' = ~solveChecked
    /\ pc' = "render"
    /\ UNCHANGED <<grid, gridWidth, gridHeight, drawCurrent, drawn, wallArgs>>
    /\ UNCHANGED genVars
    /\ UNCHANGED solveVars

\* The resize listener, lines 32-36, and the colour listeners, lines 45-54,
\* while the page is at rest: renderGrid is called.
Rerender ==
    /\ pc = "rendered"
    /\ pc' = "render"
    /\ UNCHANGED <<grid, gridWidth, gridHeight>>
    /\ UNCHANGED genVars
    /\ UNCHANGED solveVars
    /\ UNCHANGED restVars

\* A click on the generate button, line 68, while the page is at rest:
\* main() is called.  The locals of the calls that have returned are gone.
GenerateClick ==
    /\ pc = "rendered"
    /\ pc' = "clicked"
    /\ stack' = <<>>
    /\ visited' = {}
    /\ timesChosen' = [k \in {} |-> 0]
    /\ finishCell' = NoCell
    /\ openNodes' = <<>>
    /\ closedNodes' = <<>>
    /\ minKey' = NoCell
    /\ grid0' = populateGrid(0, 0)
    /\ tick' = 0
    /\ insertedAt' = [k \in {} |-> 0]
    /\ replacedKeys' = {}
    /\ keptKeys' = {}
    /\ iterations' = 0
    /\ drawCurrent' = NoCell
    /\ drawn' = <<>>
    /\ UNCHANGED <<grid, gridWidth, gridHeight, solveChecked, wallArgs>>

\* renderGrid lines 116-121, called at the end of main() and by the
\* listener: the canvas is cleared, the grid is drawn and, when the solve box
\* is checked, findPath is called.
RenderGrid ==
    /\ pc \in {"generated", "render"}
    /\ drawn' = <<>>
    /\ pc' = IF solveChecked THEN "call" ELSE "rendered"
    /\ UNCHANGED <<grid, gridWidth, gridHeight, solveChecked, drawCurrent, wallArgs>>
    /\ UNCHANGED genVars
    /\ UNCHANGED solveVars

\* renderGrid line 123 and drawFoundPath line 178: solution[0] and
\* solution[1] are read, a TypeError when solution is undefined, and
\* drawFoundPath starts at the goal.
DrawSolution ==
    /\ pc \in {"found", "undefined"}
    /\ IF pc = "undefined"
       THEN /\ pc' = "crashed"
            /\ UNCHANGED drawVars
       ELSE /\ pc' = "drawing"
            /\ drawCurrent' = finishCell
            /\ UNCHANGED drawn
    /\ UNCHANGED <<grid, gridWidth, gridHeight, solveChecked, wallArgs>>
    /\ UNCHANGED genVars
    /\ UNCHANGED solveVars

\* One iteration of the loop of drawFoundPath: the current cell is shaded;
\* at "0,0" the loop breaks; otherwise closed[current].parent is read, a
\* TypeError when closed has no such key.  Every node is built with a
\* parent, so the loop condition current !== undefined holds throughout.
DrawFoundPathStep ==
    /\ pc = "drawing"
    /\ drawn' = Append(drawn, getNumericalCoordinates(drawCurrent))
    /\ IF drawCurrent = StartKey
       THEN pc' = "rendered" /\ UNCHANGED drawCurrent
       ELSE IF drawCurrent \in DOMAIN closedNodes
       THEN pc' = "drawing" /\ drawCurrent' = closedNodes[drawCurrent].parent
       ELSE pc' = "crashed" /\ UNCHANGED drawCurrent
    /\ UNCHANGED <<grid, gridWidth, gridHeight, solveChecked, wallArgs>>
    /\ UNCHANGED genVars
    /\ UNCHANGED solveVars

NextSolve ==
    \/ FindPathInit
    \/ FindPathSelect
    \/ FindPathReturnFound
    \/ FindPathExpand
    \/ FindPathReturnUndefined
    \/ DrawSolution
    \/ DrawFoundPathStep

SpecSolve == InitSolve /\ [][NextSolve]_vars

\* main(): populateGrid, generateMaze, renderGrid; then the listeners.
Next ==
    \/ PopulateGrid
    \/ GenerateInit
    \/ GenerateCarve
    \/ GenerateBacktrack
    \/ GenerateReturn
    \/ RenderGrid
    \/ NextSolve
    \/ NumColsInput
    \/ SolveMazeChange
    \/ Rerender
    \/ GenerateClick

Spec == Init /\ [][Next]_vars

\* The steps of main() up to the return of generateMaze.
GenerateSteps ==
    PopulateGrid \/ GenerateInit \/ GenerateCarve \/ GenerateBacktrack \/ GenerateReturn

\* The code runs synchronously to completion: an enabled step is taken.
LiveSpec == Spec /\ WF_vars(GenerateSteps)


-----------------------------------------------------------------------------
(* Graph of the grid, as the specification words it *)

GridCells(g) == {getNumericalCoordinates(k) : k \in DOMAIN g}

Adjacent(a, b) == Abs(a[1] - b[1]) + Abs(a[2] - b[2]) = 1

\* The flag of cell a's own wall on the side facing the adjacent cell b.
WallFacing(g, a, b) ==
    CASE b[2] = a[2] - 1 -> g[Key(a)].top
      [] b[2] = a[2] + 1 -> g[Key(a)].bottom
      [] b[1] = a[1] - 1 -> g[Key(a)].left
      [] b[1] = a[1] + 1 -> g[Key(a)].right

\* a and b are cells of g joined by an opened wall.
Joined(g, a, b) ==
    /\ Adjacent(a, b)
    /\ Key(a) \in DOMAIN g
    /\ Key(b) \in DOMAIN g
    /\ ~WallFacing(g, a, b)

Passages(g) ==
    LET cells == GridCells(g)
    IN {e \in {{a, b} : a \in cells, b \in cells} :
           \E a \in e, b \in e : Joined(g, a, b) \/ Joined(g, b, a)}

FourAround(a) ==
    {<<a[1], a[2] - 1>>, <<a[1], a[2] + 1>>, <<a[1] - 1, a[2]>>, <<a[1] + 1, a[2]>>}

\* The cells one step through an opened wall from a cell of `from`.
StepFrom(g, from) == UNION {{b \in FourAround(a) : Joined(g, a, b)} : a \in from}

RECURSIVE Grow(_, _)
Grow(g, seen) ==
    LET more == StepFrom(g, seen) \ seen
    IN IF more = {} THEN seen ELSE Grow(g, seen \cup more)

\* The cells reachable from c through opened walls.
ReachFrom(g, c) == IF Key(c) \in DOMAIN g THEN Grow(g, {c}) ELSE {}

Components(g) == {ReachFrom(g, c) : c \in GridCells(g)}

\* A graph is a forest exactly when it has (cells - components) edges.
Acyclic(g) ==
    Cardinality(Passages(g)) = Cardinality(GridCells(g)) - Cardinality(Components(g))

WallSymmetric(g) ==
    \A a \in GridCells(g) : \A b \in FourAround(a) :
        Key(b) \in DOMAIN g => (WallFacing(g, a, b) <=> WallFacing(g, b, a))

-----------------------------------------------------------------------------
(* Claims about generateMaze *)

\* C1: when generateMaze has returned on a W x H grid (W, H >= 1), the
\* passage graph is acyclic and has exactly W*H - 1 passages.
C1_SpanningTree ==
    (pc = "generated" /\ gridWidth >= 1 /\ gridHeight >= 1)
        => /\ Cardinality(Passages(grid)) = gridWidth * gridHeight - 1
           /\ Acyclic(grid)

\* C2: when generateMaze has returned, every cell of the grid is reachable
\* from (0,0) through opened walls.
C2_AllReachable ==
    (pc = "generated" /\ gridWidth >= 1 /\ gridHeight >= 1)
        => ReachFrom(grid, <<0, 0>>) = CellsOf(gridWidth, gridHeight)

C2_Witness ==
    /\ pc = "generated"
    /\ gridWidth >= 2
    /\ gridHeight >= 2
    /\ Cardinality(ReachFrom(grid, <<0, 0>>)) >= 4

\* C3: after every completed removeWall call of generateMaze and in the final
\* grid, for all 4-adjacent cells A and B of the grid, A's wall facing B is
\* open if and only if B's wall facing A is open.
C3_WallSymmetry ==
    pc \in {"generating", "generated"} => WallSymmetric(grid)

C3_Witness ==
    /\ pc = "generating"
    /\ Cardinality(Passages(grid)) >= 3
    /\ \E a \in GridCells(grid), b \in GridCells(grid) :
          Joined(grid, a, b) /\ Joined(grid, b, a)

\* C8: when generateMaze has returned every cell is in the visited set, no
\* cell was chosen as the new neighbour more than once, and the start cell
\* (0,0) was never chosen as a new neighbour.
C8_VisitedExactlyOnce ==
    /\ pc = "generated" => \A c \in GridCells(grid) : Key(c) \in visited
    /\ \A k \in DOMAIN timesChosen : timesChosen[k] <= 1
    /\ Key(<<0, 0>>) \in DOMAIN timesChosen => timesChosen[Key(<<0, 0>>)] = 0

\* C9: generateMaze terminates: once it has started, the stack eventually
\* becomes empty and the loop exits.
C9_Terminates == (pc = "generating") ~> (pc = "generated")

C9_Witness ==
    /\ pc = "generated"
    /\ stack = <<>>
    /\ Cardinality(GridCells(grid)) >= 6

-----------------------------------------------------------------------------
(* Claims about findPath *)

\* The number of columns and of rows of the cells present in g.
ColumnsOf(g) == Cardinality({c[1] : c \in GridCells(g)})

RowsOf(g) == Cardinality({c[2] : c \in GridCells(g)})

\* findPath was given the dimensions of the grid it was given.
DimensionsMatch == gridWidth = ColumnsOf(grid) /\ gridHeight = RowsOf(grid)

GoalCell == <<gridWidth - 1, gridHeight - 1>>

GoalReachable == GoalCell \in ReachFrom(grid, <<0, 0>>)

\* Breadth-first distance from the cells of `level` (at distance d) to `target`.
RECURSIVE Levels(_, _, _, _, _)
Levels(g, seen, level, d, target) ==
    IF target \in level THEN d
    ELSE LET next == StepFrom(g, level) \ seen
         IN IF next = {} THEN -1
            ELSE Levels(g, seen \cup next, next, d + 1, target)

Dist(g, from, target) ==
    IF Key(from) \in DOMAIN g THEN Levels(g, {from}, {from}, 0, target) ELSE -1

\* The 2x2 grid in which only (0,0)-(1,0) and (1,0)-(1,1) are opened.
ExampleGrid ==
    removeWall(removeWall(populateGrid(2, 2), <<0, 0>>, <<1, 0>>), <<1, 0>>, <<1, 1>>)

\* C4: on a wall-symmetric W x H grid whose goal (W-1,H-1) is reachable from
\* (0,0), the closed set findPath returns gives the goal a moveCost equal to
\* its breadth-first distance from (0,0); on the 2x2 example the result is
\* the path (0,0),(1,0),(1,1) with moveCost 2.
C4_ShortestPath ==
    (pc = "found" /\ DimensionsMatch /\ WallSymmetric(grid) /\ GoalReachable)
        => /\ finishCell \in DOMAIN closedNodes
           /\ closedNodes[finishCell].moveCost = Dist(grid, <<0, 0>>, GoalCell)
           /\ grid = ExampleGrid =>
                 /\ closedNodes[Key(<<1, 1>>)].moveCost = 2
                 /\ closedNodes[Key(<<1, 1>>)].parent = Key(<<1, 0>>)
                 /\ closedNodes[Key(<<1, 0>>)].parent = Key(<<0, 0>>)

\* A found route on which the search closed cells off the route and replaced
\* a frontier entry by a cheaper one.
C4_Witness ==
    /\ pc = "found"
    /\ DimensionsMatch
    /\ WallSymmetric(grid)
    /\ replacedKeys # {}
    /\ closedNodes[finishCell].moveCost >= 4
    /\ closedNodes[finishCell].moveCost = Dist(grid, <<0, 0>>, GoalCell)
    /\ Cardinality(DOMAIN closedNodes) > closedNodes[finishCell].moveCost + 1

\* C5: findPath returns undefined if and only if the goal cell is not
\* reachable from (0,0) through open walls, and a (closed set, goal) pair
\* whenever a route exists.
C5_NotFoundIffUnreachable ==
    /\ pc = "undefined" => ~GoalReachable
    /\ pc = "found" => GoalReachable /\ finishCell \in DOMAIN closedNodes

\* findPath returned undefined on a grid whose goal has its four walls
\* closed while other cells were explored.
C5_Witness ==
    /\ pc = "undefined"
    /\ DimensionsMatch
    /\ Key(GoalCell) \in DOMAIN grid
    /\ grid[Key(GoalCell)] = AllWalls
    /\ Cardinality(DOMAIN closedNodes) >= 3

\* C6: the selected entry has the minimum totalCost of the frontier, and
\* among the entries of that totalCost it is the one inserted earliest.
C6_EarliestMinimum ==
    pc = "selected" =>
        /\ HasKey(openNodes, minKey)
        /\ \A i \in 1..Len(openNodes) :
              LET e == openNodes[i]
                  m == Get(openNodes, minKey)
              IN /\ e.node.totalCost >= m.totalCost
                 /\ e.node.totalCost = m.totalCost
                       => insertedAt[e.key] >= insertedAt[minKey]

\* A selection among several entries of the same minimum totalCost, the
\* selected one an entry that was replaced by a cheaper candidate.
C6_Witness ==
    /\ pc = "selected"
    /\ minKey \in replacedKeys
    /\ \E i \in 1..Len(openNodes) :
          /\ openNodes[i].key # minKey
          /\ openNodes[i].node.totalCost = Get(openNodes, minKey).totalCost
          /\ insertedAt[openNodes[i].key] > insertedAt[minKey]

\* C7: findPath never changes the grid: the cells present and their wall
\* flags are the same during and after the call as before it.
C7_GridUnchanged ==
    pc \in {"loop", "selected", "found", "undefined"} => grid = grid0

C7_Witness ==
    /\ pc \in {"found", "undefined"}
    /\ grid = grid0
    /\ Cardinality(DOMAIN closedNodes) >= 5
    /\ Cardinality(Passages(grid)) >= 4

-----------------------------------------------------------------------------
(* Claims about grid creation *)

\* C10: grid creation never returns a grid when the requested width or
\* height is <= 0: the program is never past populateGrid with such a size.
C10_CreationFails ==
    pc \in {"populated", "generating", "generated"} => (gridWidth > 0 /\ gridHeight > 0)

-----------------------------------------------------------------------------
(* removeWall called on its own with any two present cells *)

\* A grid with at most one passage and two of its cells, adjacent or not.
InitWall ==
    /\ pc = "wall"
    /\ \E w \in 1..MaxW, h \in 1..MaxH :
          /\ w * h <= MaxCells
          /\ gridWidth = w
          /\ gridHeight = h
          /\ \E edges \in SUBSET EdgesOf(w, h) :
                /\ Cardinality(edges) <= 1
                /\ grid = openAll(populateGrid(h, w), edges)
          /\ wallArgs \in CellsOf(w, h) \X CellsOf(w, h)
    /\ solveChecked = FALSE
    /\ stack = <<>>
    /\ visited = {}
    /\ timesChosen = [k \in {} |-> 0]
    /\ finishCell = NoCell
    /\ openNodes = <<>>
    /\ closedNodes = <<>>
    /\ minKey = NoCell
    /\ grid0 = grid
    /\ tick = 0
    /\ insertedAt = [k \in {} |-> 0]
    /\ replacedKeys = {}
    /\ keptKeys = {}
    /\ iterations = 0
    /\ drawCurrent = NoCell
    /\ drawn = <<>>

\* removeWall(grid, cellFrom, cellTo), lines 9-27: it returns or it throws.
RemoveWallCall ==
    /\ pc = "wall"
    /\ grid' = removeWall(grid, wallArgs[1], wallArgs[2])
    /\ pc' = IF removeWallThrows(wallArgs[1], wallArgs[2])
             THEN "wallthrew" ELSE "wallreturned"
    /\ UNCHANGED <<gridWidth, gridHeight>>
    /\ UNCHANGED genVars
    /\ UNCHANGED solveVars
    /\ UNCHANGED restVars

NextWall == RemoveWallCall

SpecWall == InitWall /\ [][NextWall]_vars

\* C11: removeWall called with two present cells that are not 4-adjacent
\* (the same cell included) ends with an error and the grid is as it was
\* before the call, wall flag for wall flag.
C11_NonAdjacentFailsFast ==
    (pc \in {"wallthrew", "wallreturned"} /\ ~Adjacent(wallArgs[1], wallArgs[2]))
        => (pc = "wallthrew" /\ grid = grid0)

\* removeWall has thrown on two different cells that are not neighbours, in a
\* grid that has a passage.
C11_Witness ==
    /\ pc = "wallthrew"
    /\ wallArgs[1] # wallArgs[2]
    /\ ~Adjacent(wallArgs[1], wallArgs[2])
    /\ \E k \in DOMAIN grid : grid[k] # AllWalls

-----------------------------------------------------------------------------
(* Claims about the caller of findPath *)

\* C12: when renderGrid runs with the solve box checked and findPath returns
\* undefined, rendering completes without an error and no path is drawn.
C12_NotFoundHandled ==
    [][pc = "undefined" => (pc' = "rendered" /\ drawn' = <<>>)]_vars

-----------------------------------------------------------------------------
(* Claims about the start of generateMaze *)

\* C13: when generateMaze reaches its loop for the first time, the visited
\* set contains the key of (0,0) and the stack holds exactly (0,0).
C13_StartVisited ==
    [][(pc = "populated" /\ pc' = "generating")
          => (Key(<<0, 0>>) \in visited' /\ stack' = << <<0, 0>> >>)]_vars

-----------------------------------------------------------------------------
(* findPath on grids whose two flags of a shared wall need not agree *)

\* The pairs <<a, b>> of neighbouring cells of a w x h grid: a's side facing b.
SidesOf(w, h) == {p \in CellsOf(w, h) \X CellsOf(w, h) : Adjacent(p[1], p[2])}

\* The w x h grid in which exactly the sides in `open` are open.
gridWithSides(w, h, open) ==
    [k \in DOMAIN populateGrid(h, w) |->
        LET a == getNumericalCoordinates(k)
        IN [top    |-> <<a, <<a[1], a[2] - 1>>>> \notin open,
            bottom |-> <<a, <<a[1], a[2] + 1>>>> \notin open,
            left   |-> <<a, <<a[1] - 1, a[2]>>>> \notin open,
            right  |-> <<a, <<a[1] + 1, a[2]>>>> \notin open]]

\* findPath is called with gridWidth, gridHeight and any grid of that size:
\* each side of each interior wall is open or closed on its own.
InitAnyGrid ==
    /\ pc = "call"
    /\ \E w \in 1..MaxW, h \in 1..MaxH :
          /\ w * h <= MaxAnyCells
          /\ gridWidth = w
          /\ gridHeight = h
          /\ \E open \in SUBSET SidesOf(w, h) : grid = gridWithSides(w, h, open)
    /\ solveChecked = TRUE
    /\ NothingRun

SpecAnyGrid == InitAnyGrid /\ [][NextSolve]_vars

\* C14: from the cell A being expanded the solver steps to exactly the
\* cells B around A that exist in the grid, are not closed, and to which A's
\* own wall is open.
C14_StepsThroughOwnWall ==
    pc = "selected" =>
        LET a == getNumericalCoordinates(minKey)
            viable == getViableNeighbours(grid, minKey, closedNodes)
        IN {viable[i] : i \in DOMAIN viable} =
               {b \in FourAround(a) : /\ Key(b) \in DOMAIN grid
                                      /\ Key(b) \notin DOMAIN closedNodes
                                      /\ ~WallFacing(grid, a, b)}

-----------------------------------------------------------------------------
(* Claims about the search nodes of findPath *)

\* findPath is between its first line and its return, or has just returned.
InFindPath == pc \in {"loop", "selected", "found", "undefined"}

\* The keys of the frontier.
OpenKeys == {openNodes[i].key : i \in DOMAIN openNodes}

\* The search nodes of the frontier and the closed set, each with its key.
SearchNodes ==
    {<<openNodes[i].key, openNodes[i].node>> : i \in DOMAIN openNodes}
        \cup {<<k, closedNodes[k]>> : k \in DOMAIN closedNodes}

\* The number of parent links from the node n of key k back to "0,0" through
\* the closed set, or -1 when the links do not lead there in `fuel` steps.
RECURSIVE ParentLinks(_, _, _)
ParentLinks(k, n, fuel) ==
    IF k = StartKey THEN 0
    ELSE IF fuel = 0 \/ n.parent \notin DOMAIN closedNodes THEN -1
    ELSE LET rest == ParentLinks(n.parent, closedNodes[n.parent], fuel - 1)
         IN IF rest = -1 THEN -1 ELSE rest + 1

\* The Manhattan distance between the cells a and b.
Manhattan(a, b) == Abs(a[1] - b[1]) + Abs(a[2] - b[2])

\* The node n of key k has the costs the node model gives it.
CostsAdd(k, n) ==
    /\ n.totalCost = n.moveCost + n.distCost
    /\ n.distCost = Manhattan(getNumericalCoordinates(k), GoalCell)
    /\ n.moveCost = ParentLinks(k, n, Cardinality(DOMAIN closedNodes) + 1)

\* C15 as stated: every node of the frontier and the closed set has
\* totalCost = moveCost + distCost, distCost its Manhattan distance to the
\* goal and moveCost its number of parent links back to the start.
C15_CostsOfEveryNode ==
    InFindPath => \A e \in SearchNodes : CostsAdd(e[1], e[2])

\* C15 amended: the same for every node but the start node, which is built
\* with moveCost 0, distCost 0 and totalCost 0 wherever the goal is.
C15_CostsExceptStart ==
    InFindPath =>
        \A e \in SearchNodes :
            IF e[1] = StartKey THEN e[2] = StartNode ELSE CostsAdd(e[1], e[2])

\* The start is not the goal, and both the closed set and the frontier hold
\* a node other than the start, one of them a replaced entry.
C15_Witness ==
    /\ pc = "loop"
    /\ finishCell # StartKey
    /\ \E k \in DOMAIN closedNodes : k # StartKey /\ closedNodes[k].moveCost > 1
    /\ OpenKeys # {}
    /\ replacedKeys # {}

\* C16: on a wall-symmetric grid, at every loop boundary of findPath and in
\* the closed set it returns, the moveCost of every closed cell is the
\* breadth-first distance from (0,0) to that cell through opened walls.
C16_ClosedCostIsDistance ==
    (InFindPath /\ WallSymmetric(grid)) =>
        \A k \in DOMAIN closedNodes :
            closedNodes[k].moveCost =
                IF k = StartKey THEN 0
                ELSE Dist(grid, <<0, 0>>, getNumericalCoordinates(k))

\* A returned closed set with a cell three or more steps from (0,0), after a
\* candidate met a frontier entry and left it as it was.
C16_Witness ==
    /\ pc = "found"
    /\ WallSymmetric(grid)
    /\ \E k \in DOMAIN closedNodes : closedNodes[k].moveCost >= 3
    /\ keptKeys # {}

-----------------------------------------------------------------------------
(* Claims about path reconstruction *)

\* C17: on a found result the walk of drawFoundPath from the goal along the
\* parent links finds every key it visits in the closed set, goes from cell
\* to adjacent cell through an opened wall, visits no cell twice, and ends at
\* (0,0), which is its own parent, after as many steps as the goal's moveCost.
C17_ReconstructionSucceeds ==
    /\ pc = "drawing" =>
          /\ drawCurrent \in DOMAIN closedNodes
          /\ Len(drawn) <= closedNodes[finishCell].moveCost
    /\ pc \in {"drawing", "rendered"} =>
          /\ \A i \in 1..(Len(drawn) - 1) : Joined(grid, drawn[i], drawn[i + 1])
          /\ \A i, j \in 1..Len(drawn) : drawn[i] = drawn[j] => i = j
    /\ (pc = "rendered" /\ drawn # <<>>) =>
          /\ drawn[1] = getNumericalCoordinates(finishCell)
          /\ drawn[Len(drawn)] = <<0, 0>>
          /\ closedNodes[StartKey].parent = StartKey
          /\ Len(drawn) = closedNodes[finishCell].moveCost + 1

\* A route of five or more cells has been walked back to (0,0) after a search
\* that replaced a frontier entry.
C17_Witness ==
    /\ pc = "rendered"
    /\ Len(drawn) >= 5
    /\ drawn[Len(drawn)] = <<0, 0>>
    /\ replacedKeys # {}

-----------------------------------------------------------------------------
(* Claims about the closed set and the frontier *)

\* C18: during a call of findPath a closed cell keeps its node, is never
\* inserted into the frontier again, and at every loop boundary no cell is
\* both in the frontier and in the closed set.
C18_ClosedIsFinal ==
    /\ [](pc = "loop" => OpenKeys \cap DOMAIN closedNodes = {})
    /\ [][InFindPath =>
             \A k \in DOMAIN closedNodes :
                 /\ k \in DOMAIN closedNodes'
                 /\ closedNodes'[k] = closedNodes[k]
                 /\ k \notin OpenKeys =>
                       k \notin {openNodes'[i].key : i \in DOMAIN openNodes'}]_vars

\* A loop boundary with three or more cells closed, one of them next to a
\* cell of the frontier through an opened wall.
C18_Witness ==
    /\ pc = "loop"
    /\ Cardinality(DOMAIN closedNodes) >= 3
    /\ \E k \in DOMAIN closedNodes, o \in OpenKeys :
          /\ closedNodes[k].parent # o
          /\ Joined(grid, getNumericalCoordinates(k), getNumericalCoordinates(o))
          /\ Get(openNodes, o).parent # k

\* C19: findPath begins at most as many loop iterations as the grid has
\* cells before it returns a result or not-found.
C19_IterationsBounded ==
    InFindPath => iterations <= Cardinality(DOMAIN grid)

\* The node findPath builds for the neighbour of key k of the cell being
\* expanded.
CandidateFor(k) ==
    LET moveCost == Get(openNodes, minKey).moveCost + 1
        distCost == Manhattan(getNumericalCoordinates(k), GoalCell)
    IN [parent |-> minKey, moveCost |-> moveCost, distCost |-> distCost,
        totalCost |-> moveCost + distCost]

\* C20: when a cell is expanded, a frontier entry that is one of its viable
\* neighbours is replaced by the candidate if its totalCost is strictly
\* greater than the candidate's and is left as it is otherwise; every other
\* frontier entry is left as it is, and no entry's moveCost increases.
C20_FrontierUpdateRule ==
    [][(pc = "selected" /\ pc' = "loop") =>
          LET viable == getViableNeighbours(grid, minKey, closedNodes)
              viableKeys == {Key(viable[i]) : i \in DOMAIN viable}
          IN \A k \in OpenKeys \ {minKey} :
                /\ HasKey(openNodes', k)
                /\ Get(openNodes', k) =
                      IF /\ k \in viableKeys
                         /\ Get(openNodes, k).totalCost > CandidateFor(k).totalCost
                      THEN CandidateFor(k)
                      ELSE Get(openNodes, k)
                /\ Get(openNodes', k).moveCost <= Get(openNodes, k).moveCost]_vars

\* A frontier entry has been replaced by a cheaper candidate and is still in
\* the frontier, with the cell that replaced it as its parent.
C20_Witness ==
    /\ pc = "loop"
    /\ \E k \in replacedKeys \cap OpenKeys :
          /\ Get(openNodes, k).parent \in DOMAIN closedNodes
          /\ insertedAt[k] < tick

-----------------------------------------------------------------------------
(* Claims about the listeners of the page *)

\* C21: whenever findPath is called, the gridWidth and gridHeight it is given
\* are the dimensions of the current grid, so that the goal cell
\* (gridWidth-1, gridHeight-1) is a cell of the grid.
C21_FindPathGivenGridDimensions ==
    pc = "call" => (DimensionsMatch /\ Key(GoalCell) \in DOMAIN grid)

-----------------------------------------------------------------------------
(* Claims about the stack of generateMaze *)

\* C22: at every loop boundary of generateMaze, every two consecutive stack
\* entries are 4-adjacent cells of the grid whose shared wall is open on both
\* sides, and the bottom entry of the stack is (0,0).
C22_StackIsWalkablePath ==
    pc = "generating" =>
        /\ \A i \in 1..(Len(stack) - 1) :
              /\ Adjacent(stack[i], stack[i + 1])
              /\ Key(stack[i]) \in DOMAIN grid
              /\ Key(stack[i + 1]) \in DOMAIN grid
              /\ ~WallFacing(grid, stack[i], stack[i + 1])
              /\ ~WallFacing(grid, stack[i + 1], stack[i])
        /\ stack # <<>> => stack[1] = <<0, 0>>

\* The stack holds four or more cells after a backtrack: a visited cell of
\* the grid is no longer on it.
C22_Witness ==
    /\ pc = "generating"
    /\ Len(stack) >= 4
    /\ \E k \in visited \cap DOMAIN grid :
          \A i \in 1..Len(stack) : Key(stack[i]) # k

====
